---- MODULE Spec2Model ----
(***************************************************************************)
(* Model of the ORION field agent (raspiagent-py/agent.py): the            *)
(* connectivity state, the main loop of Agent.start, the configuration     *)
(* fetch, the sensor sampling pass with its driver registry, and the       *)
(* command poll.  One action per step of the single-threaded loop; the     *)
(* server, the drivers and the clock are the environment and are drawn     *)
(* from small sets.                                                        *)
(***************************************************************************)
EXTENDS Integers, Sequences, FiniteSets, TLC

(* ---------------------------------------------------------------- bounds *)
\* Longest sensor list of a fetched configuration.
MaxSensors == 2
\* Longest command list returned by one poll.
MaxCommands == 2
\* Number of loop iterations (sleeps) explored.
MaxIters == 2
\* The actions run for one command id are counted up to this number.
MaxCounted == 2
\* Value of time.time() when Agent.start is entered.
StartTime == 1000
\* Time units the loop is followed for where iterations are not counted.
Horizon == 120
\* Longest byte stream a serial device sends before the read times out.
MaxBytes == 5
\* Most lines a serial device sends before the read times out.
MaxLines == 3

(* ------------------------------------------------------ program constants *)
CONFIG_POLL_INTERVAL == 60
SENSOR_READ_INTERVAL == 1
COMMAND_POLL_INTERVAL == 5
\* sensor_config.get('read_frequency', 300)
DEFAULT_READ_FREQUENCY == 300

\* The four values of Agent.state (ASCII transliterations of the literals).
INITIALIZING == "BASLATILIYOR"
CONFIGURING == "YAPILANDIRILIYOR"
ONLINE == "CEVRIMICI"
OFFLINE == "CEVRIMDISI"

(* -------------------------------------------------------------- optionals *)
\* A dict key that may be absent: <<>> is "key absent", <<v>> is "key: v".
Get(opt, default) == IF opt = <<>> THEN default ELSE opt[1]

(* ----------------------------------------------------------- environment *)
\* Seconds that may pass during one time.sleep(SENSOR_READ_INTERVAL): the
\* sleep itself, or the sleep plus a suspension of the process.
SleepElapsed ==
    {SENSOR_READ_INTERVAL, COMMAND_POLL_INTERVAL, CONFIG_POLL_INTERVAL,
     DEFAULT_READ_FREQUENCY}

\* The same, for runs that are followed by the clock: the longer steps only.
CoarseElapsed == {COMMAND_POLL_INTERVAL, CONFIG_POLL_INTERVAL}

\* Final HTTP status codes the server may answer with.
HttpStatuses == {200, 300, 404}

\* requests.Response.raise_for_status raises HTTPError (a RequestException)
\* exactly for the 4xx and 5xx codes.
RaisesForStatus(status) == status >= 400 /\ status < 600

\* Driver names a configuration may carry.  dfrobot_ult has a loadable file
\* in drivers/; hx711_load_cell's file does a relative import, which fails
\* under spec_from_file_location; nosuch has no file.
DriverNames == {"dfrobot_ult", "hx711_load_cell", "nosuch"}
LoadableDrivers == {"dfrobot_ult"}

\* The sensor entries a configuration is built from (without the id).
SensorKinds ==
    { [is_active |-> <<TRUE>>, interface |-> "physical",
       read_frequency |-> <<>>, driver |-> <<"dfrobot_ult">>],
      [is_active |-> <<TRUE>>, interface |-> "physical",
       read_frequency |-> <<5>>, driver |-> <<>>],
      [is_active |-> <<TRUE>>, interface |-> "physical",
       read_frequency |-> <<5>>, driver |-> <<"hx711_load_cell">>],
      [is_active |-> <<FALSE>>, interface |-> "physical",
       read_frequency |-> <<5>>, driver |-> <<"dfrobot_ult">>],
      [is_active |-> <<>>, interface |-> "physical",
       read_frequency |-> <<>>, driver |-> <<"dfrobot_ult">>],
      [is_active |-> <<TRUE>>, interface |-> "virtual",
       read_frequency |-> <<5>>, driver |-> <<"nosuch">>] }

\* Sensor ids are unique keys: the sensor at position i has id i.
WithIds(kinds) ==
    [i \in DOMAIN kinds |->
        [id |-> i, is_active |-> kinds[i].is_active,
         interface |-> kinds[i].interface,
         read_frequency |-> kinds[i].read_frequency,
         driver |-> kinds[i].driver]]

SensorLists ==
    UNION {{WithIds(k) : k \in [1 .. n -> SensorKinds]} : n \in 0 .. MaxSensors}

\* The cameras of every configuration: one with a stream URL, one without.
Cameras == <<[id |-> 1, rtsp_url |-> TRUE], [id |-> 2, rtsp_url |-> FALSE]>>

GlobalFrequencies == {<<>>, <<60>>}

\* self.config: None, or what response.json() returned.  shape is
\*   "none"       None (nothing fetched yet)
\*   "dict"       a JSON object with 'sensors' and 'cameras'
\*   "no_sensors" a JSON object without the 'sensors' key
\*   "list"       a JSON value that is not an object
NoneConfig ==
    [shape |-> "none", sensors |-> <<>>, cameras |-> <<>>, grf |-> <<>>]

ConfigBodies ==
    [shape : {"dict"}, sensors : SensorLists, cameras : {Cameras},
     grf : GlobalFrequencies]
    \cup {[shape |-> "no_sensors", sensors |-> <<>>, cameras |-> <<>>,
           grf |-> <<60>>],
          [shape |-> "list", sensors |-> <<>>, cameras |-> <<>>,
           grf |-> <<>>]}

\* A body that is not JSON: response.json() raises JSONDecodeError, which is a
\* requests.exceptions.RequestException.
BadJson ==
    [shape |-> "bad_json", sensors |-> <<>>, cameras |-> <<>>, grf |-> <<>>]

\* What requests.get(.../config/<id>) can produce: a transport error, or a
\* final response with a status and a body.
ConfigResponsesWith(bodies) ==
    {[err |-> TRUE, status |-> 0, body |-> BadJson]}
    \cup [err : {FALSE}, status : {404}, body : {BadJson}]
    \cup [err : {FALSE}, status : {200, 300}, body : bodies \cup {BadJson}]

ConfigResponses == ConfigResponsesWith(ConfigBodies)

\* The configurations of a device that has no sensors.
SensorlessBodies == {b \in ConfigBodies : b.sensors = <<>>}

\* The well-formed configurations of a device with one sensor, active, not
\* virtual, with a driver that can be loaded.
SingleSensorBodies ==
    {b \in ConfigBodies :
        /\ b.shape = "dict"
        /\ Len(b.sensors) = 1
        /\ b.sensors[1].is_active = <<TRUE>>
        /\ b.sensors[1].interface # "virtual"
        /\ b.sensors[1].driver \in {<<n>> : n \in LoadableDrivers}}

\* What requests.post(.../submit-reading) can produce.
SubmitResponses ==
    {[err |-> TRUE, status |-> 0]} \cup [err : {FALSE}, status : HttpStatuses]

\* The commands a poll may return.  command_type <<>> is an entry without the
\* 'command_type' key.
CommandKinds ==
    { [id |-> 1, command_type |-> <<"CAPTURE_IMAGE">>, camera_id |-> 1],
      [id |-> 2, command_type |-> <<"CAPTURE_IMAGE">>, camera_id |-> 2],
      [id |-> 2, command_type |-> <<"CAPTURE_IMAGE">>, camera_id |-> 3],
      [id |-> 2, command_type |-> <<"ANALYZE_SNOW_DEPTH">>, camera_id |-> 1],
      [id |-> 1, command_type |-> <<"REBOOT">>, camera_id |-> 1],
      [id |-> 2, command_type |-> <<>>, camera_id |-> 1] }

CommandIds == {c.id : c \in CommandKinds}

\* The server lists pending commands by id: no id twice in one answer.
CommandLists ==
    {l \in UNION {[1 .. n -> CommandKinds] : n \in 0 .. MaxCommands} :
        \A i, j \in DOMAIN l : l[i].id = l[j].id => i = j}

\* What requests.get(.../commands/<id>) can produce; json is FALSE for a body
\* that is not JSON.
CommandResponses ==
    {[err |-> TRUE, status |-> 0, json |-> FALSE, body |-> <<>>]}
    \cup [err : {FALSE}, status : {404}, json : {FALSE}, body : {<<>>}]
    \cup [err : {FALSE}, status : {200}, json : {FALSE}, body : {<<>>}]
    \cup [err : {FALSE}, status : {200}, json : {TRUE}, body : CommandLists]

\* Outcomes of the ffmpeg subprocess of capture_image: it ran, it exited
\* non-zero (CalledProcessError), or the binary is missing (FileNotFoundError).
FfmpegOutcomes == {"ok", "failed", "missing"}

\* The empty dict.
EmptyMap == [x \in {} |-> 0]

\* d[k] = v for a dict d.
Put(d, k, v) == [x \in DOMAIN d \cup {k} |-> IF x = k THEN v ELSE d[x]]

NoHttp == [op |-> "none", err |-> FALSE, status |-> 0]

VARIABLES
    pc,                 \* position in Agent.start and the pass it is running
    exit,               \* why start left its loop: "none", "interrupt", "error"
    state,              \* self.state
    config,             \* self.config
    global_read_frequency_seconds,
    driver_instances,   \* self.driver_instances: driver name -> instance
    last_read_times,    \* self.last_read_times: sensor id -> timestamp
    clock,              \* time.time()
    last_config_fetch,  \* local of start
    last_command_check, \* local of start
    iters,              \* loop iterations completed
    now,                \* local of process_sensors
    active_sensors,     \* local of process_sensors
    idx,                \* position of the for loop in active_sensors
    driver,             \* local of process_sensors: the resolved instance
    commands,           \* local of check_for_commands
    cmdIdx,             \* position of the for loop in commands
    http,               \* the HTTP exchange the last step completed, if any
    fetched,            \* the body of that exchange when it fetched a config
    loaded,             \* what load_driver did in the last step, if called
    instantiations,     \* driver name -> number of driver_class() calls
    returned,           \* driver name -> instances load_driver has returned
    attempted,          \* ids whose read attempt began in the current pass
    passState,          \* self.state when the current pass was entered
    sendFailedInPass,   \* a submission failed in the current pass
    sendFailedSince,    \* a submission failed since the last successful fetch
    executions,         \* command id -> actions run for it (up to MaxCounted)
    reports,            \* status reports of the current poll:
                        \* <<id, status, transport error, dispatch result>>
    entryTimes,         \* last_read_times when the current pass was entered
    lastSignal,         \* outcome of the latest fetch or submission that
                        \* returned: "none", "ok", "fail"
    lastFetchAttempt,   \* time.time() when fetch_config was last called
    lastPollAttempt,    \* time.time() when check_for_commands was last called
    bench,              \* the driver.read call that is followed step by step:
                        \* the driver, its config and what its device sends
    pending,            \* what the device has yet to send before the timeout
    buffer,             \* local of DfrobotUltDriver.read
    readout             \* where that call is, and what it returned

loopVars == <<clock, last_config_fetch, last_command_check, iters>>
passVars == <<now, active_sensors, idx, driver>>
cmdVars == <<commands, cmdIdx, executions, reports>>
registryVars == <<driver_instances, instantiations, returned>>
attemptVars == <<lastFetchAttempt, lastPollAttempt>>
histVars == <<attempted, passState, sendFailedInPass, sendFailedSince,
             entryTimes, lastSignal, attemptVars>>
agentVars == <<state, config, global_read_frequency_seconds>>

wireVars == <<http, fetched, loaded>>

benchVars == <<bench, pending, buffer, readout>>

vars == <<pc, exit, agentVars, last_read_times, loopVars, passVars, cmdVars,
          registryVars, histVars, wireVars, benchVars>>

\* No driver.read call is followed.
NoBench ==
    [driver |-> "none", configured |-> FALSE, opens |-> FALSE,
     settling |-> <<>>, input |-> <<>>]

NotCalled == [kind |-> "idle", value |-> <<>>]

\* Agent.__init__ (lines 34-47) and the locals of start.
AgentInit ==
    /\ pc = "start"
    /\ exit = "none"
    /\ state = INITIALIZING
    /\ config = NoneConfig
    /\ global_read_frequency_seconds = 0
    /\ driver_instances = EmptyMap
    /\ last_read_times = EmptyMap
    /\ clock = StartTime
    /\ last_config_fetch = 0
    /\ last_command_check = 0
    /\ iters = 0
    /\ now = 0
    /\ active_sensors = <<>>
    /\ idx = 0
    /\ driver = <<>>
    /\ commands = <<>>
    /\ cmdIdx = 0
    /\ http = NoHttp
    /\ fetched = NoneConfig
    /\ loaded = "none"
    /\ entryTimes = EmptyMap
    /\ instantiations = [n \in DriverNames |-> 0]
    /\ returned = [n \in DriverNames |-> {}]
    /\ attempted = {}
    /\ passState = INITIALIZING
    /\ sendFailedInPass = FALSE
    /\ sendFailedSince = FALSE
    /\ executions = [c \in CommandIds |-> 0]
    /\ reports = <<>>
    /\ lastSignal = "none"
    /\ lastFetchAttempt = 0
    /\ lastPollAttempt = 0

Init ==
    /\ AgentInit
    /\ bench = NoBench
    /\ pending = <<>>
    /\ buffer = <<>>
    /\ readout = NotCalled

\* The step completes no HTTP exchange that the model records.
NoWire == http' = NoHttp /\ fetched' = NoneConfig /\ loaded' = "none"

(* ------------------------------------------------------------ _set_state *)
\* Agent._set_state: the value of self.state after the call.
SetState(current, new_state) == IF current # new_state THEN new_state ELSE current

(* ---------------------------------------------------------- fetch_config *)
\* Lines 84-85: the fetch begins by entering CONFIGURING.
BeginFetch(nextPc) ==
    /\ state' = SetState(state, CONFIGURING)
    /\ pc' = nextPc
    /\ lastFetchAttempt' = clock
    /\ NoWire
    /\ UNCHANGED <<exit, config, global_read_frequency_seconds, last_read_times,
                   loopVars, passVars, cmdVars, registryVars, attempted,
                   passState, sendFailedInPass, sendFailedSince, entryTimes,
                   lastSignal, lastPollAttempt>>
    /\ UNCHANGED benchVars

\* Lines 86-95: what the try block leaves behind for a response.  raised is
\* TRUE when an exception other than RequestException leaves fetch_config:
\* .get on a body that is no dict (line 90), or a missing 'sensors' key in
\* the log line (line 91), both after self.config was assigned.
FetchConfigResult(resp, st, cfg, grf) ==
    IF resp.err \/ RaisesForStatus(resp.status) \/ resp.body.shape = "bad_json"
    THEN [state |-> SetState(st, OFFLINE), config |-> cfg, grf |-> grf,
          raised |-> FALSE]
    ELSE IF resp.body.shape = "list"
    THEN [state |-> st, config |-> resp.body, grf |-> grf, raised |-> TRUE]
    ELSE IF resp.body.shape = "no_sensors"
    THEN [state |-> st, config |-> resp.body, grf |-> Get(resp.body.grf, 0),
          raised |-> TRUE]
    ELSE [state |-> SetState(st, ONLINE), config |-> resp.body,
          grf |-> Get(resp.body.grf, 0), raised |-> FALSE]

\* The fetch succeeded: fetch_config reached line 92.
FetchSucceeded(r) == ~r.raised /\ r.state = ONLINE

FetchReturn(resp, startup) ==
    LET r == FetchConfigResult(resp, state, config, global_read_frequency_seconds)
    IN  /\ state' = r.state
        /\ config' = r.config
        /\ global_read_frequency_seconds' = r.grf
        /\ http' = [op |-> "config", err |-> resp.err, status |-> resp.status]
        /\ fetched' = resp.body
        /\ loaded' = "none"
        /\ sendFailedSince' = IF FetchSucceeded(r) THEN FALSE ELSE sendFailedSince
        /\ lastSignal' = IF r.raised THEN lastSignal
                         ELSE IF FetchSucceeded(r) THEN "ok" ELSE "fail"
        /\ IF r.raised
           THEN /\ pc' = "shutdown"
                /\ exit' = "error"
                /\ UNCHANGED <<last_config_fetch, last_command_check>>
           ELSE /\ pc' = IF startup THEN "loop_config" ELSE "loop_commands"
                /\ exit' = exit
                /\ last_config_fetch' = clock
                /\ last_command_check' =
                       IF startup THEN clock ELSE last_command_check
        /\ UNCHANGED <<last_read_times, clock, iters, passVars, cmdVars,
                       registryVars, attempted, passState, sendFailedInPass,
                       entryTimes, attemptVars>>
        /\ UNCHANGED benchVars

\* Line 56: the fetch before the loop.
StartFetch == pc = "start" /\ BeginFetch("start_fetch")

\* Lines 56-59.
StartFetchReturn(responses) ==
    /\ pc = "start_fetch"
    /\ \E resp \in responses : FetchReturn(resp, TRUE)

\* Variant: the fetch is due in every iteration.
ConfigDueAlways(t, last) == TRUE

\* Variant: the fetch is never due.
ConfigDueNever(t, last) == FALSE

\* Line 62: the configuration fetch is due.
ConfigDue(t, last) == t - last >= CONFIG_POLL_INTERVAL

\* Lines 62-63: the fetch is due.
LoopFetch ==
    /\ pc = "loop_config"
    /\ ConfigDue(clock, last_config_fetch)
    /\ BeginFetch("loop_fetch")

\* Line 62: the fetch is not due.
LoopFetchSkip ==
    /\ pc = "loop_config"
    /\ ~ConfigDue(clock, last_config_fetch)
    /\ pc' = "loop_commands"
    /\ NoWire
    /\ UNCHANGED <<exit, agentVars, last_read_times, loopVars, passVars,
                   cmdVars, registryVars, histVars>>
    /\ UNCHANGED benchVars

\* Lines 63-64.
LoopFetchReturn(responses) ==
    /\ pc = "loop_fetch"
    /\ \E resp \in responses : FetchReturn(resp, FALSE)

(* ----------------------------------------------------- check_for_commands *)
CommandsDue(t, last) == t - last >= COMMAND_POLL_INTERVAL

\* Line 66: the poll is not due.
LoopCommandsSkip ==
    /\ pc = "loop_commands"
    /\ ~CommandsDue(clock, last_command_check)
    /\ pc' = "process_sensors"
    /\ NoWire
    /\ UNCHANGED <<exit, agentVars, last_read_times, loopVars, passVars,
                   cmdVars, registryVars, histVars>>
    /\ UNCHANGED benchVars

\* Line 162: check_for_commands goes on to the request.
CommandsGate(st) == st = ONLINE

\* check_for_commands returns and start resets its reference (line 68).
CommandsReturn ==
    /\ pc' = "process_sensors"
    /\ last_command_check' = clock
    /\ commands' = <<>>
    /\ cmdIdx' = 0
    /\ NoWire
    /\ UNCHANGED <<clock, last_config_fetch, iters>>

\* Lines 66-67 and 162-163: the poll is due; it returns at once unless ONLINE.
CheckForCommands ==
    /\ pc = "loop_commands"
    /\ CommandsDue(clock, last_command_check)
    /\ reports' = <<>>
    /\ lastPollAttempt' = clock
    /\ IF CommandsGate(state)
       THEN /\ pc' = "get_commands"
            /\ UNCHANGED <<loopVars, commands, cmdIdx>>
       ELSE CommandsReturn
    /\ NoWire
    /\ UNCHANGED <<exit, agentVars, last_read_times, passVars, executions,
                   registryVars, attempted, passState, sendFailedInPass,
                   sendFailedSince, entryTimes, lastSignal, lastFetchAttempt>>
    /\ UNCHANGED benchVars

\* Lines 165-168: the commands of a response; none for a transport error, a
\* status other than 200 or a body that is not JSON (all swallowed).
CommandsOf(resp) ==
    IF resp.err \/ resp.status # 200 \/ ~resp.json THEN <<>> ELSE resp.body

\* The answers of a server that has no command pending.
NoCommandResponses == {resp \in CommandResponses : CommandsOf(resp) = <<>>}

\* Lines 165-174: the request and its answer.
GetCommands(responses) ==
    /\ pc = "get_commands"
    /\ \E resp \in responses :
          LET cmds == CommandsOf(resp)
          IN  IF cmds = <<>>
              THEN CommandsReturn
              ELSE /\ commands' = cmds
                   /\ cmdIdx' = 1
                   /\ pc' = "execute_command"
                   /\ UNCHANGED loopVars
    /\ NoWire
    /\ UNCHANGED <<exit, agentVars, last_read_times, passVars, executions,
                   reports, registryVars, histVars>>
    /\ UNCHANGED benchVars

\* capture_image: "true", "false", or "raise" when an exception other than
\* CalledProcessError and RequestException leaves it.  The upload's response
\* is not inspected: any answer of the server counts as uploaded.
capture_image(cfg, camera_id, ffmpeg, upload) ==
    LET cams == SelectSeq(cfg.cameras, LAMBDA c : c.id = camera_id)
    IN  IF cams = <<>> \/ ~cams[1].rtsp_url THEN "false"
        ELSE IF ffmpeg = "missing" THEN "raise"
        ELSE IF ffmpeg = "failed" THEN "false"
        ELSE IF upload.err THEN "false"
        ELSE "true"

\* No upload was made.
NoUpload == [err |-> FALSE, status |-> 0]

\* How far capture_image got for a command: "n/a" for another command type,
\* "no_camera" (line 198), "ffmpeg_missing" or "ffmpeg_failed" (line 211),
\* or "captured" with the answer to the upload of line 221.
CaptureTrace(command, cfg, ffmpeg, upload) ==
    LET cams == SelectSeq(cfg.cameras, LAMBDA c : c.id = command.camera_id)
        capture ==
            IF command.command_type # <<"CAPTURE_IMAGE">> THEN "n/a"
            ELSE IF cams = <<>> \/ ~cams[1].rtsp_url THEN "no_camera"
            ELSE IF ffmpeg = "missing" THEN "ffmpeg_missing"
            ELSE IF ffmpeg = "failed" THEN "ffmpeg_failed"
            ELSE "captured"
    IN  [capture |-> capture,
         upload |-> IF capture = "captured" THEN upload ELSE NoUpload]

\* analyze_snow_depth: the placeholder returns True.
analyze_snow_depth == "true"

\* Variant: a command type without a branch counts as a success.
DispatchUnknownSucceeds(command, cfg, ffmpeg, upload) ==
    IF command.command_type = <<"CAPTURE_IMAGE">>
    THEN capture_image(cfg, command.camera_id, ffmpeg, upload)
    ELSE "true"

\* Lines 178-183: the dispatch on command_type; success stays False when no
\* branch matches.
Dispatch(command, cfg, ffmpeg, upload) ==
    IF command.command_type = <<"CAPTURE_IMAGE">>
    THEN capture_image(cfg, command.camera_id, ffmpeg, upload)
    ELSE IF command.command_type = <<"ANALYZE_SNOW_DEPTH">>
    THEN analyze_snow_depth
    ELSE "false"

\* The command types that run an action.
RunsAction(command) ==
    command.command_type \in {<<"CAPTURE_IMAGE">>, <<"ANALYZE_SNOW_DEPTH">>}

\* Lines 185 and 188: the status reported for a dispatch result.
ReportedStatus(result) == IF result = "true" THEN "completed" ELSE "failed"

\* Lines 170-171 and 176-188: one command of the poll.  An entry without
\* 'command_type' raises KeyError at line 177, outside the try.
ExecuteCommand ==
    /\ pc = "execute_command"
    /\ LET command == commands[cmdIdx]
       IN  IF command.command_type = <<>>
           THEN /\ pc' = "shutdown"
                /\ exit' = "error"
                /\ UNCHANGED <<loopVars, cmdVars>>
           ELSE /\ \E ffmpeg \in FfmpegOutcomes, upload \in SubmitResponses,
                         ack \in SubmitResponses :
                      LET result == Dispatch(command, config, ffmpeg, upload)
                      IN  reports' = Append(reports,
                              <<command.id, ReportedStatus(result), ack.err,
                                result,
                                CaptureTrace(command, config, ffmpeg, upload)>>)
                /\ executions' =
                       IF RunsAction(command)
                       THEN [executions EXCEPT
                                ![command.id] = IF @ < MaxCounted THEN @ + 1 ELSE @]
                       ELSE executions
                /\ exit' = exit
                /\ IF cmdIdx < Len(commands)
                   THEN /\ cmdIdx' = cmdIdx + 1
                        /\ pc' = pc
                        /\ UNCHANGED <<loopVars, commands>>
                   ELSE CommandsReturn
    /\ NoWire
    /\ UNCHANGED <<agentVars, last_read_times, passVars, registryVars,
                   histVars>>
    /\ UNCHANGED benchVars

(* -------------------------------------------------------- process_sensors *)
\* Variant: the gate without its state test.
PassGateConfigOnly(st, cfg) == cfg.shape # "none"

\* Line 101: the pass goes on past its first line.
PassGate(st, cfg) == st = ONLINE /\ cfg.shape # "none"

\* Variant: the filter of line 105 without its interface test.
ActiveSensorsAnyInterface(cfg) ==
    SelectSeq(cfg.sensors, LAMBDA s : Get(s.is_active, FALSE))

\* Line 105.
ActiveSensors(cfg) ==
    SelectSeq(cfg.sensors,
              LAMBDA s : Get(s.is_active, FALSE) /\ s.interface # "virtual")

\* Lines 97-98.
get_effective_frequency(grf, sensor_config) ==
    IF grf > 0 THEN grf
    ELSE Get(sensor_config.read_frequency, DEFAULT_READ_FREQUENCY)

\* self.last_read_times.get(id, 0)
LastRead(times, id) == IF id \in DOMAIN times THEN times[id] ELSE 0

\* Line 111.
ReadDue(t, last_read, read_frequency) == t - last_read >= read_frequency

\* Variant: the attempt is not stamped.
MarkAttemptNever(times, id, t) == times

\* Line 113: the attempt is stamped as it begins.
MarkAttempt(times, id, t) == Put(times, id, t)

\* process_sensors returns to start.
PassReturn ==
    /\ pc' = "sleep"
    /\ now' = 0
    /\ active_sensors' = <<>>
    /\ idx' = 0
    /\ driver' = <<>>

\* The for loop goes to its next sensor, or ends.
NextSensor ==
    IF idx < Len(active_sensors)
    THEN /\ pc' = "sensor"
         /\ idx' = idx + 1
         /\ driver' = <<>>
         /\ UNCHANGED <<now, active_sensors>>
    ELSE PassReturn

\* Lines 70 and 101-105: the pass is entered.
ProcessSensors ==
    /\ pc = "process_sensors"
    /\ attempted' = {}
    /\ passState' = state
    /\ sendFailedInPass' = FALSE
    /\ entryTimes' = last_read_times
    /\ reports' = <<>>
    /\ IF PassGate(state, config) /\ ActiveSensors(config) # <<>>
       THEN /\ pc' = "sensor"
            /\ now' = clock
            /\ active_sensors' = ActiveSensors(config)
            /\ idx' = 1
            /\ driver' = <<>>
       ELSE PassReturn
    /\ NoWire
    /\ UNCHANGED <<exit, agentVars, last_read_times, loopVars, commands,
                   cmdIdx, executions, registryVars, sendFailedSince,
                   lastSignal, attemptVars>>
    /\ UNCHANGED benchVars

\* Lines 108-113: the sensor is evaluated; when due its timestamp is set and
\* the attempt begins.
EvaluateSensor ==
    /\ pc = "sensor"
    /\ LET sensor_config == active_sensors[idx]
           last_read == LastRead(last_read_times, sensor_config.id)
           read_frequency ==
               get_effective_frequency(global_read_frequency_seconds,
                                       sensor_config)
       IN  IF ReadDue(now, last_read, read_frequency)
           THEN /\ last_read_times' =
                       MarkAttempt(last_read_times, sensor_config.id, now)
                /\ attempted' = attempted \cup {sensor_config.id}
                /\ pc' = "load_driver"
                /\ UNCHANGED passVars
           ELSE /\ NextSensor
                /\ UNCHANGED <<last_read_times, attempted>>
    /\ NoWire
    /\ UNCHANGED <<exit, agentVars, loopVars, cmdVars, registryVars, passState,
                   sendFailedInPass, sendFailedSince, entryTimes, lastSignal,
                   attemptVars>>
    /\ UNCHANGED benchVars

\* Whether the driver file of a name can be executed and holds the class: for
\* a loadable driver the import of its dependencies may still fail.
LoadOutcomes(driver_name) ==
    IF driver_name \in LoadableDrivers THEN {TRUE, FALSE} ELSE {FALSE}

\* Variant: load_driver without the cache lookup of lines 133-134.
load_driver_uncached(driver_name, cache, loads, serial) ==
    IF loads
    THEN LET instance == [class |-> driver_name, serial |-> serial]
         IN  [driver |-> <<instance>>,
              cache |-> Put(cache, driver_name, instance), created |-> TRUE,
              how |-> "created"]
    ELSE [driver |-> <<>>, cache |-> cache, created |-> FALSE, how |-> "failed"]

\* Lines 132-150: load_driver.  driver is <<instance>> or <<>> for None;
\* created tells whether driver_class() was called.
load_driver(driver_name, cache, loads, serial) ==
    IF driver_name \in DOMAIN cache
    THEN [driver |-> <<cache[driver_name]>>, cache |-> cache, created |-> FALSE,
          how |-> "cached"]
    ELSE IF loads
    THEN LET instance == [class |-> driver_name, serial |-> serial]
         IN  [driver |-> <<instance>>,
              cache |-> Put(cache, driver_name, instance), created |-> TRUE,
              how |-> "created"]
    ELSE [driver |-> <<>>, cache |-> cache, created |-> FALSE, how |-> "failed"]

\* Lines 115-119 and 127-130: the driver is resolved.  Without a driver name
\* line 116 raises KeyError, and the handler's own log line (line 128) reads
\* the same key and raises it again: the exception leaves process_sensors.
LoadDriver ==
    /\ pc = "load_driver"
    /\ LET sensor_config == active_sensors[idx]
       IN  IF sensor_config.driver = <<>>
           THEN /\ pc' = "shutdown"
                /\ exit' = "error"
                /\ loaded' = "none"
                /\ UNCHANGED <<passVars, registryVars>>
           ELSE \E loads \in LoadOutcomes(sensor_config.driver[1]) :
                  LET name == sensor_config.driver[1]
                      r == load_driver(name, driver_instances, loads,
                                       instantiations[name] + 1)
                  IN  /\ driver_instances' = r.cache
                      /\ loaded' = r.how
                      /\ instantiations' =
                             IF r.created
                             THEN [instantiations EXCEPT ![name] = @ + 1]
                             ELSE instantiations
                      /\ returned' =
                             IF r.driver # <<>>
                             THEN [returned EXCEPT ![name] = @ \cup {r.driver[1]}]
                             ELSE returned
                      /\ exit' = exit
                      /\ IF r.driver = <<>>
                         THEN NextSensor
                         ELSE /\ pc' = "read"
                              /\ driver' = r.driver
                              /\ UNCHANGED <<now, active_sensors, idx>>
    /\ http' = NoHttp
    /\ fetched' = NoneConfig
    /\ UNCHANGED <<agentVars, last_read_times, loopVars, cmdVars, histVars>>
    /\ UNCHANGED benchVars

\* What driver.read(sensor_config['config']) can do: return a reading, return
\* None, or raise.
ReadOutcomes == {"reading", "none", "raise"}

\* Lines 121-130: the read; a reading goes on to send_reading, None and an
\* exception are logged and the loop continues.
DriverRead ==
    /\ pc = "read"
    /\ \E outcome \in ReadOutcomes :
          IF outcome = "reading"
          THEN /\ pc' = "send_reading"
               /\ UNCHANGED passVars
          ELSE NextSensor
    /\ NoWire
    /\ UNCHANGED <<exit, agentVars, last_read_times, loopVars, cmdVars,
                   registryVars, histVars>>
    /\ UNCHANGED benchVars

\* Lines 153-159: the submission failed.
SubmitFailed(resp) == resp.err \/ RaisesForStatus(resp.status)

\* Variant: send_reading that only logs the failure.
send_reading_logs_only(resp, st) == st

\* Variant: a submission that succeeds brings the state back to ONLINE.
send_reading_restores(resp, st) ==
    IF SubmitFailed(resp) THEN SetState(st, OFFLINE) ELSE SetState(st, ONLINE)

\* Lines 152-159: self.state after send_reading.
send_reading(resp, st) == IF SubmitFailed(resp) THEN SetState(st, OFFLINE) ELSE st

\* Lines 123 and 152-159: the reading is submitted.
SendReading ==
    /\ pc = "send_reading"
    /\ \E resp \in SubmitResponses :
          /\ state' = send_reading(resp, state)
          /\ http' = [op |-> "submit", err |-> resp.err, status |-> resp.status]
          /\ sendFailedInPass' = (sendFailedInPass \/ SubmitFailed(resp))
          /\ sendFailedSince' = (sendFailedSince \/ SubmitFailed(resp))
          /\ lastSignal' = IF SubmitFailed(resp) THEN "fail" ELSE "ok"
    /\ fetched' = NoneConfig
    /\ loaded' = "none"
    /\ NextSensor
    /\ UNCHANGED <<exit, config, global_read_frequency_seconds, last_read_times,
                   loopVars, cmdVars, registryVars, attempted, passState,
                   entryTimes, attemptVars>>
    /\ UNCHANGED benchVars

(* ------------------------------------------------------------------ start *)
\* Line 71: time.sleep; the clock moves on and the loop starts over.  The
\* iteration is counted or not.
SleepFor(counted, elapsed) ==
    /\ pc = "sleep"
    /\ \E d \in elapsed : clock' = clock + d
    /\ iters' = IF counted THEN iters + 1 ELSE iters
    /\ pc' = "loop_config"
    /\ attempted' = {}
    /\ passState' = INITIALIZING
    /\ sendFailedInPass' = FALSE
    /\ entryTimes' = EmptyMap
    /\ NoWire
    /\ UNCHANGED <<exit, agentVars, last_read_times, last_config_fetch,
                   last_command_check, passVars, cmdVars, registryVars,
                   sendFailedSince, lastSignal, attemptVars>>
    /\ UNCHANGED benchVars

\* The loop, followed for MaxIters iterations.
Sleep == iters < MaxIters /\ SleepFor(TRUE, SleepElapsed)

\* The loop, followed until the clock has run Horizon time units.
SleepWithinHorizon ==
    clock < StartTime + Horizon /\ SleepFor(FALSE, CoarseElapsed)

\* Lines 73-74: KeyboardInterrupt, taken where the loop spends its time.
Interrupt ==
    /\ pc = "sleep"
    /\ pc' = "shutdown"
    /\ exit' = "interrupt"
    /\ NoWire
    /\ UNCHANGED <<agentVars, last_read_times, loopVars, passVars, cmdVars,
                   registryVars, histVars>>
    /\ UNCHANGED benchVars

\* The whole agent.
Next ==
    \/ StartFetch
    \/ StartFetchReturn(ConfigResponses)
    \/ LoopFetch
    \/ LoopFetchSkip
    \/ LoopFetchReturn(ConfigResponses)
    \/ LoopCommandsSkip
    \/ CheckForCommands
    \/ GetCommands(CommandResponses)
    \/ ExecuteCommand
    \/ ProcessSensors
    \/ EvaluateSensor
    \/ LoadDriver
    \/ DriverRead
    \/ SendReading
    \/ Sleep
    \/ Interrupt

Spec == Init /\ [][Next]_vars

\* The agent against a server that never has a command pending: every
\* configuration, every sampling pass, command polls that return nothing.
NextSampling ==
    \/ StartFetch
    \/ StartFetchReturn(ConfigResponses)
    \/ LoopFetch
    \/ LoopFetchSkip
    \/ LoopFetchReturn(ConfigResponses)
    \/ LoopCommandsSkip
    \/ CheckForCommands
    \/ GetCommands(NoCommandResponses)
    \/ ProcessSensors
    \/ EvaluateSensor
    \/ LoadDriver
    \/ DriverRead
    \/ SendReading
    \/ Sleep
    \/ Interrupt

SpecSampling == Init /\ [][NextSampling]_vars

\* The agent of a device without sensors: every command poll and command,
\* sampling passes that find nothing to read.
NextCommands ==
    \/ StartFetch
    \/ StartFetchReturn(ConfigResponsesWith(SensorlessBodies))
    \/ LoopFetch
    \/ LoopFetchSkip
    \/ LoopFetchReturn(ConfigResponsesWith(SensorlessBodies))
    \/ LoopCommandsSkip
    \/ CheckForCommands
    \/ GetCommands(CommandResponses)
    \/ ExecuteCommand
    \/ ProcessSensors
    \/ Sleep
    \/ Interrupt

SpecCommands == Init /\ [][NextCommands]_vars

\* The steps of the loop of a one-sensor device while it keeps iterating, time
\* advancing, until the horizon.
IterateRecovery ==
    \/ StartFetch
    \/ StartFetchReturn(ConfigResponsesWith(SingleSensorBodies))
    \/ LoopFetch
    \/ LoopFetchSkip
    \/ LoopFetchReturn(ConfigResponsesWith(SingleSensorBodies))
    \/ LoopCommandsSkip
    \/ CheckForCommands
    \/ GetCommands(NoCommandResponses)
    \/ ProcessSensors
    \/ EvaluateSensor
    \/ LoadDriver
    \/ DriverRead
    \/ SendReading
    \/ SleepWithinHorizon

NextRecovery == IterateRecovery \/ Interrupt

\* The loop keeps iterating unless an interrupt or an exception ends it: no
\* call of the loop blocks for ever and time.sleep returns.
SpecRecovery ==
    Init /\ [][NextRecovery]_vars /\ WF_vars(IterateRecovery)
(* ================================================================ drivers *)
\* Everything of the agent, which a driver.read call leaves alone.
agentSide ==
    <<pc, exit, agentVars, last_read_times, loopVars, passVars, cmdVars,
      registryVars, histVars, wireVars>>

\* What a driver.read call returned: None, a reading, or an exception.
ReadNone == [kind |-> "none", value |-> <<>>]
ReadValue(v) == [kind |-> "value", value |-> v]
ReadRaised == [kind |-> "raise", value |-> <<>>]
Reading == [kind |-> "reading", value |-> <<>>]
Returned == readout.kind \in {"none", "value", "raise"}

(* ------------------------------------------------------ dfrobot_ult_driver *)
\* Byte values a stream is built from: 0x00, 0x01, 0x2C, 0xFE, 0xFF.
ProbeBytes == {0, 1, 44, 254, 255}

ByteStreams == UNION {[1 .. n -> ProbeBytes] : n \in 0 .. MaxBytes}

\* Line 29: sum(buffer[0:3]) & 0xFF.
Checksum(b) == (b[1] + b[2] + b[3]) % 256

\* Line 31: (buffer[1] << 8) | buffer[2].
DistanceMm(b) == b[2] * 256 + b[3]

\* Line 32: round(distance_mm / 10.0, 1), as <<whole centimetres, tenths>>.
DistanceCm(distance_mm) == <<distance_mm \div 10, distance_mm % 10>>

\* Variant: a frame whose checksum fails is dropped whole.
RECURSIVE ScanFramesDropFrame(_)
ScanFramesDropFrame(b) ==
    IF Len(b) < 4
    THEN [found |-> FALSE, value |-> <<>>, buffer |-> b]
    ELSE IF b[1] = 255
    THEN IF Checksum(b) = b[4]
         THEN [found |-> TRUE, value |-> DistanceCm(DistanceMm(b)),
               buffer |-> b]
         ELSE ScanFramesDropFrame(SubSeq(b, 5, Len(b)))
    ELSE ScanFramesDropFrame(Tail(b))

\* Lines 27-40: the inner loop over the buffer.
RECURSIVE ScanFrames(_)
ScanFrames(b) ==
    IF Len(b) < 4
    THEN [found |-> FALSE, value |-> <<>>, buffer |-> b]
    ELSE IF b[1] = 255
    THEN IF Checksum(b) = b[4]
         THEN [found |-> TRUE, value |-> DistanceCm(DistanceMm(b)),
               buffer |-> b]
         ELSE ScanFrames(Tail(b))
    ELSE ScanFrames(Tail(b))

\* The lidar reads that are followed: a config without 'port', a port that
\* cannot be opened, and an open port with every byte stream.
DfrobotBenches ==
    [driver : {"dfrobot_ult"}, configured : {TRUE}, opens : {TRUE},
     settling : {<<>>}, input : ByteStreams]
    \cup [driver : {"dfrobot_ult"}, configured : {TRUE, FALSE},
          opens : {FALSE}, settling : {<<>>}, input : {<<>>}]

\* Lines 10-22 and 45-49: read is called; the port is opened.
DfrobotCall ==
    /\ bench.driver = "dfrobot_ult"
    /\ readout.kind = "idle"
    /\ readout' = IF bench.configured /\ bench.opens THEN Reading ELSE ReadNone
    /\ buffer' = <<>>
    /\ UNCHANGED <<bench, pending, agentSide>>

\* Lines 24-40: ser.read returns the next bytes and the buffer is scanned.
DfrobotReceive ==
    /\ bench.driver = "dfrobot_ult"
    /\ readout.kind = "reading"
    /\ pending # <<>>
    /\ \E k \in 1 .. Len(pending) :
          LET r == ScanFrames(buffer \o SubSeq(pending, 1, k))
          IN  /\ buffer' = r.buffer
              /\ pending' = SubSeq(pending, k + 1, Len(pending))
              /\ readout' = IF r.found THEN ReadValue(r.value) ELSE readout
    /\ UNCHANGED <<bench, agentSide>>

\* Lines 24 and 42-43: the 3 seconds are over.
DfrobotTimeout ==
    /\ bench.driver = "dfrobot_ult"
    /\ readout.kind = "reading"
    /\ pending = <<>>
    /\ readout' = ReadNone
    /\ UNCHANGED <<bench, pending, buffer, agentSide>>

(* -------------------------------------------------- hx711_load_cell_driver *)
\* A line is the sequence of the characters ser.readline() returned; "LF" is
\* the newline and "xFF" a byte that is not valid UTF-8.
ValidLine == <<"=", " ", "1", "2", ".", "3", "4", "LF">>
BareValidLine == <<"=", "5", "LF">>
GarbageLine == <<"x", "LF">>
NotANumberLine == <<"=", " ", "x", "LF">>
EmptyValueLine == <<"=", "LF">>
UndecodableLine == <<"xFF", "LF">>

ProbeLines ==
    {ValidLine, BareValidLine, GarbageLine, NotANumberLine, EmptyValueLine,
     UndecodableLine}

LineStreams == UNION {[1 .. n -> ProbeLines] : n \in 0 .. MaxLines}

\* Line 43: bytes.decode('utf-8') succeeds.
Decodes(line) == \A i \in DOMAIN line : line[i] # "xFF"

Whitespace == {" ", "LF"}

RECURSIVE LStrip(_)
LStrip(s) ==
    IF s # <<>> /\ Head(s) \in Whitespace THEN LStrip(Tail(s)) ELSE s

RECURSIVE RStrip(_)
RStrip(s) ==
    IF s # <<>> /\ s[Len(s)] \in Whitespace
    THEN RStrip(SubSeq(s, 1, Len(s) - 1))
    ELSE s

\* str.strip().
Strip(s) == RStrip(LStrip(s))

\* Line 46: line.startswith('=').
StartsWithEq(s) == s # <<>> /\ s[1] = "="

\* The characters of s before its first '=' (all of s when it has none).
RECURSIVE UpToEq(_)
UpToEq(s) ==
    IF s = <<>> \/ Head(s) = "=" THEN <<>> ELSE <<Head(s)>> \o UpToEq(Tail(s))

\* Line 49: line.split('=')[1], for a line that starts with '='.
SplitSecond(s) == UpToEq(Tail(s))

DigitValue ==
    [c \in {"0", "1", "2", "3", "4", "5", "6", "7", "8", "9"} |->
        CASE c = "0" -> 0 [] c = "1" -> 1 [] c = "2" -> 2 [] c = "3" -> 3
          [] c = "4" -> 4 [] c = "5" -> 5 [] c = "6" -> 6 [] c = "7" -> 7
          [] c = "8" -> 8 [] c = "9" -> 9]

\* Line 50: float(weight_str) does not raise ValueError, for a string of
\* digits and points.
IsFloat(s) ==
    /\ \A i \in DOMAIN s : s[i] \in DOMAIN DigitValue \cup {"."}
    /\ Cardinality({i \in DOMAIN s : s[i] = "."}) <= 1
    /\ \E i \in DOMAIN s : s[i] \in DOMAIN DigitValue

\* The digits of s read as one integer.
RECURSIVE Mantissa(_, _)
Mantissa(s, acc) ==
    IF s = <<>> THEN acc
    ELSE IF Head(s) = "." THEN Mantissa(Tail(s), acc)
    ELSE Mantissa(Tail(s), acc * 10 + DigitValue[Head(s)])

\* Line 50: float(weight_str), as <<digits, number of decimals>>.
FloatOf(s) ==
    <<Mantissa(s, 0),
      IF \E i \in DOMAIN s : s[i] = "."
      THEN Len(s) - (CHOOSE i \in DOMAIN s : s[i] = ".")
      ELSE 0>>

\* Lines 43-56: what one line does to the read: "abort" (the exception of
\* the decode reaches line 68), "skip", or the weight.
ParseLine(line) ==
    IF ~Decodes(line) THEN [act |-> "abort", value |-> <<>>]
    ELSE LET text == Strip(line)
         IN  IF ~StartsWithEq(text) THEN [act |-> "skip", value |-> <<>>]
             ELSE LET weight_str == Strip(SplitSecond(text))
                  IN  IF IsFloat(weight_str)
                      THEN [act |-> "return", value |-> FloatOf(weight_str)]
                      ELSE [act |-> "skip", value |-> <<>>]

\* The load-cell reads that are followed: with or without a line that arrives
\* during the settle delay.
Hx711Benches ==
    [driver : {"hx711_load_cell"}, configured : {TRUE}, opens : {TRUE},
     settling : {<<>>, <<ValidLine>>}, input : LineStreams]
    \cup [driver : {"hx711_load_cell"}, configured : {TRUE, FALSE},
          opens : {FALSE}, settling : {<<>>}, input : {<<>>}]

\* Lines 24-39 and 62-67: read is called; the port is opened and, after the
\* settle delay, flushed.
Hx711Call ==
    /\ bench.driver = "hx711_load_cell"
    /\ readout.kind = "idle"
    /\ readout' = IF bench.configured /\ bench.opens THEN Reading ELSE ReadNone
    /\ pending' = bench.input
    /\ UNCHANGED <<bench, buffer, agentSide>>

\* Lines 41-56: the next line is read.
Hx711Line ==
    /\ bench.driver = "hx711_load_cell"
    /\ readout.kind = "reading"
    /\ pending # <<>>
    /\ pending' = Tail(pending)
    /\ LET r == ParseLine(Head(pending))
       IN  readout' = IF r.act = "abort" THEN ReadNone
                      ELSE IF r.act = "return" THEN ReadValue(r.value)
                      ELSE readout
    /\ UNCHANGED <<bench, buffer, agentSide>>

\* Lines 41 and 59-60: the 7 seconds are over.
Hx711Timeout ==
    /\ bench.driver = "hx711_load_cell"
    /\ readout.kind = "reading"
    /\ pending = <<>>
    /\ readout' = ReadNone
    /\ UNCHANGED <<bench, pending, buffer, agentSide>>

(* ------------------------------------------------------ openweather_driver *)
\* What response.json() of the weather API can be:
\*   "weather"          {'main': {'temp': 21.456, 'humidity': 63, ...}, ...}
\*   "no_main"          a JSON object without 'main'
\*   "array"            a JSON array
\*   "main_empty"       {'main': {}}
\*   "main_no_humidity" {'main': {'temp': 21.456}}
\*   "main_number"      {'main': 5}
\*   "temp_text"        {'main': {'temp': "warm", 'humidity': 63}}
\*   "null"             the JSON value null
\*   "bad_json"         a body that is not JSON
WeatherShapes ==
    {"weather", "no_main", "array", "main_empty", "main_no_humidity",
     "main_number", "temp_text", "null", "bad_json"}

\* What requests.get(url, timeout=8) can produce.
WeatherResponses ==
    {[err |-> TRUE, status |-> 0, shape |-> "bad_json"]}
    \cup [err : {FALSE}, status : HttpStatuses, shape : WeatherShapes]

\* round(x, 2) of a value given in thousandths, in hundredths.
Round2(thousandths) == (thousandths + 5) \div 10

\* Lines 8-34: OpenweatherDriver.read.  Only RequestException is caught:
\* the TypeError of line 24 ('main' in None), and the KeyError or TypeError
\* of lines 25-26, leave read.
openweather_read(configured, resp) ==
    IF ~configured THEN ReadNone
    ELSE IF resp.err \/ RaisesForStatus(resp.status) \/ resp.shape = "bad_json"
    THEN ReadNone
    ELSE IF resp.shape = "null" THEN ReadRaised
    ELSE IF resp.shape \in {"no_main", "array"} THEN ReadNone
    ELSE IF resp.shape = "weather"
    THEN ReadValue(<<Round2(21456), Round2(63000)>>)
    ELSE ReadRaised

\* The weather reads that are followed: a config with or without its key and
\* coordinates, and every response.
OpenweatherBenches ==
    [driver : {"openweather"}, configured : BOOLEAN, opens : {TRUE},
     settling : {<<>>}, input : {<<r>> : r \in WeatherResponses}]

OpenweatherRead ==
    /\ bench.driver = "openweather"
    /\ readout.kind = "idle"
    /\ readout' = openweather_read(bench.configured, bench.input[1])
    /\ UNCHANGED <<bench, pending, buffer, agentSide>>

(* ------------------------------------------------------------ sht3x_driver *)
\* config['address']: a hexadecimal string such as '0x44' (also the
\* default), a string that is not hexadecimal, or a value that is no string.
Sht3xAddresses == {"hex", "not_hex", "number"}

\* The I2C transaction: the measurement arrives, or any step of it raises
\* (no such bus, no acknowledge, CRC mismatch).
Sht3xDevices == {"measured", "no_bus", "no_ack", "crc_error"}

\* Lines 10-50: Sht3xDriver.read.
sht3x_read(address, device) ==
    IF address # "hex" THEN ReadNone
    ELSE IF device # "measured" THEN ReadNone
    ELSE ReadValue(<<Round2(21456), Round2(63000)>>)

Sht3xBenches ==
    [driver : {"sht3x"}, configured : {TRUE}, opens : {TRUE},
     settling : {<<>>},
     input : {<<[address |-> a, device |-> d]>> :
                 a \in Sht3xAddresses, d \in Sht3xDevices}]

Sht3xRead ==
    /\ bench.driver = "sht3x"
    /\ readout.kind = "idle"
    /\ readout' = sht3x_read(bench.input[1].address, bench.input[1].device)
    /\ UNCHANGED <<bench, pending, buffer, agentSide>>

(* --------------------------------------------------------- the drivers run *)
\* One driver.read call, on any of the drivers, with the agent at rest.
InitDrivers ==
    /\ AgentInit
    /\ \/ bench \in DfrobotBenches
       \/ bench \in Hx711Benches
       \/ bench \in OpenweatherBenches
       \/ bench \in Sht3xBenches
    /\ pending = bench.settling \o bench.input
    /\ buffer = <<>>
    /\ readout = NotCalled

NextDrivers ==
    \/ DfrobotCall
    \/ DfrobotReceive
    \/ DfrobotTimeout
    \/ Hx711Call
    \/ Hx711Line
    \/ Hx711Timeout
    \/ OpenweatherRead
    \/ Sht3xRead

SpecDrivers == InitDrivers /\ [][NextDrivers]_vars

(* ================================================================ claims *)
\* The positions inside a sampling pass, and those of a begun read attempt.
SamplingPcs == {"sensor", "load_driver", "read", "send_reading"}
AttemptPcs == {"load_driver", "read", "send_reading"}

\* A 2xx status.
Is2xx(status) == status >= 200 /\ status < 300

\* process_sensors has returned, or an exception has left it.
PassOver ==
    \/ pc = "sleep"
    \/ pc = "shutdown" /\ exit = "error" /\ active_sensors # <<>>

\* The effective frequency as the specification words it.
ClaimFrequency(s) ==
    IF global_read_frequency_seconds > 0 THEN global_read_frequency_seconds
    ELSE IF s.read_frequency # <<>> THEN s.read_frequency[1]
    ELSE 300

\* The sensor was due when the pass that is running (or just over) was entered.
DueAtEntry(s) == clock - LastRead(entryTimes, s.id) >= ClaimFrequency(s)

\* A pass that does nothing: no driver, no submission, no timestamp.
NoOpPass ==
    /\ pc' = "sleep"
    /\ last_read_times' = last_read_times
    /\ driver_instances' = driver_instances
    /\ attempted' = {}
    /\ http' = NoHttp

(* ------------------------------------------------------------------- C1 *)
\* C1 (as stated): whenever a driver read is invoked, a reading is submitted
\* or the command list is fetched, the state is ONLINE, for every sensor of a
\* pass and not only for the first.
C1_OnlineAtEveryOperation ==
    pc \in {"read", "send_reading", "get_commands"} => state = ONLINE

\* C1 (amended): the gate is evaluated when a pass or a poll is entered.  A
\* pass that reads or submits was entered ONLINE, and while it runs the state
\* is ONLINE, or OFFLINE after a submission of this same pass failed; the
\* command list is fetched only when ONLINE.
C1_GatedAtEntry ==
    /\ pc \in SamplingPcs =>
          /\ passState = ONLINE
          /\ state = ONLINE \/ (state = OFFLINE /\ sendFailedInPass)
    /\ pc = "get_commands" => state = ONLINE

\* A driver read is about to run in a pass that a failed submission has
\* already turned OFFLINE.
C1_ReadWhileOffline == pc = "read" /\ state = OFFLINE /\ sendFailedInPass

(* ------------------------------------------------------------------- C2 *)
\* C2 (as stated): a submission that ends in a transport error or a status
\* that is not 2xx while ONLINE sets the state to OFFLINE, and every pass
\* entered after a failed submission and before the next successful fetch
\* does nothing.
C2_FailedSubmissionOffline ==
    [][/\ (http'.op = "submit" /\ state = ONLINE
              /\ (http'.err \/ ~Is2xx(http'.status))) => state' = OFFLINE
       /\ (pc = "process_sensors" /\ sendFailedSince) => NoOpPass]_vars

\* C2 (amended): a submission that ends in a transport error or a 4xx/5xx
\* status while ONLINE sets the state to OFFLINE, and every pass entered
\* after it and before the next successful fetch does nothing.
C2_HttpErrorSubmissionOffline ==
    [][/\ (http'.op = "submit" /\ state = ONLINE
              /\ (http'.err \/ http'.status >= 400)) => state' = OFFLINE
       /\ (pc = "process_sensors" /\ sendFailedSince) => NoOpPass]_vars

\* A pass entered after a failed submission has returned without an attempt
\* although a sensor of the configuration was due.
C2_SkippedPassWithDueSensor ==
    /\ pc = "sleep"
    /\ sendFailedSince
    /\ ~sendFailedInPass
    /\ passState = OFFLINE
    /\ attempted = {}
    /\ \E k \in DOMAIN config.sensors :
          /\ config.sensors[k].is_active = <<TRUE>>
          /\ config.sensors[k].interface # "virtual"
          /\ config.sensors[k].id \in DOMAIN last_read_times
          /\ DueAtEntry(config.sensors[k])

(* ------------------------------------------------------------------- C3 *)
\* C3: a fetch that ends in a transport error or a status that is not 2xx
\* sets the state to OFFLINE and leaves config and
\* global_read_frequency_seconds as they were; config changes only by a
\* successful fetch (2xx, a valid configuration body, state ONLINE) and then
\* becomes the fetched body.
C3_OnlySuccessfulFetchReplacesConfig ==
    [][/\ (http'.op = "config" /\ (http'.err \/ ~Is2xx(http'.status))) =>
              /\ state' = OFFLINE
              /\ config' = config
              /\ global_read_frequency_seconds' = global_read_frequency_seconds
       /\ config' # config =>
              /\ http'.op = "config"
              /\ ~http'.err
              /\ Is2xx(http'.status)
              /\ fetched'.shape = "dict"
              /\ config' = fetched'
              /\ state' = ONLINE]_vars

(* ------------------------------------------------------------------- C4 *)
\* C4: when a pass is over, every sensor that was due and comes after a sensor
\* whose attempt began in that pass has been attempted too, whatever went
\* wrong for the earlier one.
C4_LaterDueSensorsAttempted ==
    PassOver =>
        LET A == ActiveSensors(config)
        IN  \A i, j \in DOMAIN A :
                (i < j /\ A[i].id \in attempted /\ DueAtEntry(A[j]))
                    => A[j].id \in attempted

(* ------------------------------------------------------------------- C5 *)
\* C5: the main loop ends only on an external interrupt, never because an
\* exception left fetch_config, check_for_commands or process_sensors.
C5_LoopEndsOnlyOnInterrupt == pc = "shutdown" => exit = "interrupt"

(* ------------------------------------------------------------------- C6 *)
\* A sensor the pass must leave alone: not active, or virtual.
ExcludedSensor(s) == s.is_active # <<TRUE>> \/ s.interface = "virtual"

\* C6: no step resolves or reads the driver of a sensor of the configuration
\* that is inactive (or has no is_active) or virtual, submits a reading for it
\* or changes its last-read timestamp.
C6_ExcludedSensorsUntouched ==
    [][\A k \in DOMAIN config.sensors :
          LET s == config.sensors[k]
          IN  ExcludedSensor(s) =>
                /\ LastRead(last_read_times', s.id) = LastRead(last_read_times, s.id)
                /\ s.id \notin attempted'
                /\ ~(pc' \in SamplingPcs /\ active_sensors'[idx'].id = s.id)]_vars

\* A pass has attempted a sensor while the configuration also holds a virtual
\* active sensor and an inactive one, both never stamped.
C6_PassWithExcludedSensors ==
    /\ pc = "sleep"
    /\ attempted # {}
    /\ \E k \in DOMAIN config.sensors :
          /\ ExcludedSensor(config.sensors[k])
          /\ config.sensors[k].id \notin DOMAIN last_read_times

(* ------------------------------------------------------------------- C7 *)
\* C7: when a pass that ran is over, the sensors it attempted are exactly the
\* active non-virtual sensors whose elapsed time at the pass was at least the
\* effective frequency (global if > 0, else the sensor's own, else 300).
C7_AttemptedIffDue ==
    (PassOver /\ passState = ONLINE /\ config.shape = "dict") =>
        attempted =
            {s.id : s \in {t \in {config.sensors[k] : k \in DOMAIN config.sensors} :
                              ~ExcludedSensor(t) /\ DueAtEntry(t)}}

(* ------------------------------------------------------------------- C8 *)
\* C8: from the moment the attempt begins, before the driver is resolved or
\* read, last_read_times[id] is the pass time; it keeps that value to the end
\* of the pass whatever the outcome; and a pass that evaluates the sensor less
\* than one effective frequency after that stamp does not attempt it.
C8_StampedAtAttemptStart ==
    [][/\ pc' \in AttemptPcs =>
              LastRead(last_read_times', active_sensors'[idx'].id) = now'
       /\ \A id \in attempted' : LastRead(last_read_times', id) = clock'
       /\ (pc = "sensor"
              /\ active_sensors[idx].id \in DOMAIN last_read_times
              /\ now - last_read_times[active_sensors[idx].id]
                     < ClaimFrequency(active_sensors[idx]))
          => /\ pc' # "load_driver"
             /\ last_read_times' = last_read_times
             /\ attempted' = attempted]_vars

\* A pass has left alone a sensor whose driver cannot be resolved and whose
\* earlier attempt, in an earlier pass, is less than its frequency ago.
C8_FailedSensorNotRetried ==
    /\ pc = "sleep"
    /\ passState = ONLINE
    /\ \E k \in DOMAIN config.sensors :
          LET s == config.sensors[k]
          IN  /\ ~ExcludedSensor(s)
              /\ s.driver = <<"hx711_load_cell">>
              /\ s.id \in DOMAIN last_read_times
              /\ s.id \notin attempted
              /\ last_read_times[s.id] < clock
              /\ clock - last_read_times[s.id] < ClaimFrequency(s)

(* ------------------------------------------------------------------- C9 *)
\* C9: no driver name is instantiated more than once, load_driver never
\* returns two different instances for one name, and a cache entry, once
\* written, is never replaced or removed.
C9_DriverLoadedOnce ==
    [][/\ \A n \in DriverNames :
              /\ instantiations'[n] <= 1
              /\ Cardinality(returned'[n]) <= 1
       /\ \A n \in DOMAIN driver_instances :
              /\ n \in DOMAIN driver_instances'
              /\ driver_instances'[n] = driver_instances[n]]_vars

\* load_driver has just answered from its cache.
C9_CacheHit == loaded = "cached" /\ pc = "read" /\ driver # <<>>

(* ------------------------------------------------------------------ C10 *)
\* C10: over the whole run the action of a command id is run at most once.
C10_ExecutedAtMostOnce == \A id \in CommandIds : executions[id] <= 1

(* ------------------------------------------------------------------ C11 *)
\* C11: a poll makes as many status reports as its answer holds commands, one
\* per command id in order (none when the poll is skipped, fails or returns
\* nothing), and each report says 'completed' when the dispatched action
\* returned success and 'failed' when it returned failure or raised.
C11_OneReportPerCommand ==
    [][/\ (pc \in {"loop_commands", "get_commands"} /\ pc' # "execute_command"
              /\ pc' # pc) => reports' = <<>>
       /\ (pc = "execute_command" /\ pc' # "execute_command") =>
              /\ Len(reports') = Len(commands)
              /\ \A i \in DOMAIN reports' :
                    /\ reports'[i][1] = commands[i].id
                    /\ reports'[i][2] =
                          (IF reports'[i][4] = "true" THEN "completed"
                           ELSE "failed")]_vars

(* ------------------------------------------------------------------ C12 *)
\* The command has a command_type, and it is none of the two with a branch.
UnknownType(command) ==
    command.command_type # <<>> /\ ~RunsAction(command)

\* C12: executing a command of an unknown type runs no action and adds
\* exactly one status report, for its id, with status 'failed'.
C12_UnknownTypeReportedFailed ==
    [][(pc = "execute_command" /\ UnknownType(commands[cmdIdx])) =>
          /\ executions' = executions
          /\ Len(reports') = Len(reports) + 1
          /\ SubSeq(reports', 1, Len(reports)) = reports
          /\ reports'[Len(reports')][1] = commands[cmdIdx].id
          /\ reports'[Len(reports')][2] = "failed"]_vars

\* The first command of a poll had an unknown type, and its one report says
\* 'failed'.
C12_UnknownTypeReported ==
    /\ pc = "execute_command"
    /\ cmdIdx = 2
    /\ UnknownType(commands[1])
    /\ Len(reports) = 1
    /\ reports[1][1] = commands[1].id
    /\ reports[1][2] = "failed"

(* ------------------------------------------------------------------ C15 *)
\* No fetch is in progress, a fetch or a submission has returned and no
\* exception has ended the loop.
SignalSeen ==
    /\ pc \notin {"start", "start_fetch", "loop_fetch"}
    /\ lastSignal # "none"
    /\ exit # "error"

\* C15 (as stated): whenever no fetch is in progress the state is ONLINE
\* exactly when the latest fetch or submission outcome was a success, and
\* OFFLINE exactly when it was a failure.  Checked on the runs that no
\* exception has ended, where it already fails.
C15_StateIsLatestSignal ==
    SignalSeen =>
        /\ state = ONLINE <=> lastSignal = "ok"
        /\ state = OFFLINE <=> lastSignal = "fail"

\* C15 (amended): while the loop runs and no fetch is in progress, the state
\* is ONLINE exactly when the latest outcome was a success and no submission
\* has failed since the last successful fetch, and OFFLINE exactly when the
\* latest outcome was a failure or a submission has failed since then.
C15_OfflineUntilNextFetch ==
    SignalSeen =>
        /\ state = ONLINE <=> (lastSignal = "ok" /\ ~sendFailedSince)
        /\ state = OFFLINE <=> (lastSignal = "fail" \/ sendFailedSince)

\* A submission has succeeded after an earlier one of the same pass failed:
\* the latest outcome is a success and the state is still OFFLINE.
C15_SuccessWhileOffline ==
    /\ state = OFFLINE
    /\ lastSignal = "ok"
    /\ sendFailedInPass
    /\ pc \in {"sensor", "sleep"}

(* ------------------------------------------------------------------ C16 *)
\* C16: the state changes only to CONFIGURING when a fetch begins, from
\* CONFIGURING to ONLINE or OFFLINE when the fetch succeeds or fails, and from
\* ONLINE to OFFLINE when a submission fails; INITIALIZING is never
\* re-entered, ONLINE is entered only by a successful fetch, and a fetch that
\* has finished leaves ONLINE or OFFLINE behind.
C16_TransitionsAsListed ==
    [][/\ state' # state =>
              \/ state' = CONFIGURING /\ pc' \in {"start_fetch", "loop_fetch"}
              \/ /\ state = CONFIGURING /\ state' = ONLINE
                 /\ http'.op = "config" /\ lastSignal' = "ok"
              \/ /\ state = CONFIGURING /\ state' = OFFLINE
                 /\ http'.op = "config" /\ lastSignal' = "fail"
              \/ /\ state = ONLINE /\ state' = OFFLINE
                 /\ http'.op = "submit" /\ lastSignal' = "fail"
       /\ state' = INITIALIZING => state = INITIALIZING
       /\ http'.op = "config" => state' \in {ONLINE, OFFLINE}]_vars

(* ------------------------------------------------------------------ C18 *)
\* The positions of the command poll.
PollPcs == {"loop_commands", "get_commands", "execute_command"}

\* C18: an iteration goes from the configuration fetch (if due) to the
\* command poll (if due) to the sampling pass and only then to the sleep; no
\* iteration ends before its sampling pass has been entered, whether or not
\* a fetch or a poll was due or failed.
C18_FetchThenPollThenPass ==
    [][/\ pc = "loop_config" => pc' \in {"loop_fetch", "loop_commands"}
       /\ pc = "loop_fetch" => pc' = "loop_commands"
       /\ pc \in PollPcs => pc' \in PollPcs \cup {"process_sensors"}
       /\ pc = "process_sensors" => pc' \in SamplingPcs \cup {"sleep"}
       /\ pc \in SamplingPcs => pc' \in SamplingPcs \cup {"sleep", "shutdown"}
       /\ pc = "sleep" => pc' \in {"loop_config", "shutdown"}]_vars

(* ------------------------------------------------------------------ C19 *)
\* C19: a configuration fetch of the loop begins at least
\* CONFIG_POLL_INTERVAL after the fetch before it, a command poll at least
\* COMMAND_POLL_INTERVAL after the poll before it, and a fetch or poll that
\* returns, whatever its outcome, leaves its reference timestamp at the
\* current time.
C19_AttemptsSpacedByInterval ==
    [][/\ (pc = "loop_config" /\ pc' = "loop_fetch") =>
              clock - lastFetchAttempt >= CONFIG_POLL_INTERVAL
       /\ (pc = "loop_fetch" /\ pc' = "loop_commands") =>
              last_config_fetch' = clock
       /\ (pc = "loop_commands" /\ lastPollAttempt' # lastPollAttempt) =>
              \/ lastPollAttempt = 0
              \/ clock - lastPollAttempt >= COMMAND_POLL_INTERVAL
       /\ (pc \in PollPcs /\ pc' = "process_sensors"
              /\ lastPollAttempt' = clock) => last_command_check' = clock]_vars

\* The fetch before the loop failed, the first iteration came too early to
\* fetch again, and the second iteration, a full interval later, fetches.
C19_FailedFetchRetriedOnSchedule ==
    /\ pc = "loop_fetch"
    /\ iters = 2
    /\ lastSignal = "fail"
    /\ last_config_fetch = StartTime
    /\ clock - last_config_fetch >= CONFIG_POLL_INTERVAL

(* ------------------------------------------------------------------ C17 *)
\* C17: an OFFLINE agent whose loop keeps iterating (neither interrupted nor
\* ended) reaches a configuration fetch; a fetch answered 2xx with a
\* well-formed configuration makes the state ONLINE, after which a due command
\* poll is sent and the sampling pass evaluates its sensors; and from OFFLINE
\* the state changes only by the start of a fetch.
C17_OfflineRecoversByFetch ==
    /\ [](   (/\ state = OFFLINE
              /\ pc # "shutdown"
              /\ clock + CONFIG_POLL_INTERVAL <= StartTime + Horizon)
          => <>(pc = "loop_fetch" \/ pc = "shutdown"))
    /\ [][/\ (/\ pc = "loop_fetch" /\ http'.op = "config" /\ ~http'.err
              /\ Is2xx(http'.status) /\ fetched'.shape = "dict")
                 => state' = ONLINE
          /\ (/\ state = ONLINE /\ pc = "loop_commands"
              /\ CommandsDue(clock, last_command_check))
                 => pc' = "get_commands"
          /\ (/\ state = ONLINE /\ pc = "process_sensors"
              /\ ActiveSensors(config) # <<>>)
                 => pc' = "sensor"
          /\ state = OFFLINE =>
                 \/ state' = OFFLINE
                 \/ state' = CONFIGURING /\ pc' = "loop_fetch"]_vars

\* An agent that a failed fetch or submission left OFFLINE has come to its
\* next scheduled fetch.
C17_FetchAttemptedWhileOffline ==
    /\ pc = "loop_fetch"
    /\ lastSignal = "fail"
    /\ lastFetchAttempt = clock
    /\ last_config_fetch >= StartTime
    /\ clock - last_config_fetch >= CONFIG_POLL_INTERVAL

(* ------------------------------------------------------------------ C13 *)
\* The positions of a stream where a valid frame starts, in the claim's
\* words: the byte is 0xFF and the sum of it and the next two bytes, mod 256,
\* is the fourth.
FramePositions(stream) ==
    {i \in 1 .. Len(stream) - 3 :
        /\ stream[i] = 255
        /\ (stream[i] + stream[i + 1] + stream[i + 2]) % 256 = stream[i + 3]}

Earliest(S) == CHOOSE i \in S : \A j \in S : i <= j

\* A lidar read on an open port has returned.
DfrobotReturned ==
    /\ bench.driver = "dfrobot_ult" /\ bench.configured /\ bench.opens
    /\ Returned

\* C13: the binary-frame parser returns the decoding of the earliest valid
\* frame of the stream it was sent, distance_mm = byte i+1 * 256 + byte i+2
\* as distance_mm / 10 cm, with the bytes before the frame discarded; it
\* returns empty when the stream holds no valid frame.
C13_EarliestValidFrame ==
    DfrobotReturned =>
        LET P == FramePositions(bench.input)
        IN  IF P = {} THEN readout = ReadNone
            ELSE LET i == Earliest(P)
                     distance_mm == bench.input[i + 1] * 256 + bench.input[i + 2]
                 IN  /\ readout.kind = "value"
                     /\ readout.value[1] * 10 + readout.value[2] = distance_mm
                     /\ readout.value[2] \in 0 .. 9
                     /\ SubSeq(buffer, 1, 4) = SubSeq(bench.input, i, i + 3)

\* The stream 0x01 0xFF 0x01 0x2C 0x2C has been read as 30.0 cm, the leading
\* byte discarded.
C13_ResynchronisedFrame ==
    /\ DfrobotReturned
    /\ bench.input = <<1, 255, 1, 44, 44>>
    /\ readout = ReadValue(<<30, 0>>)
    /\ buffer = <<255, 1, 44, 44>>

(* ------------------------------------------------------------------ C14 *)
\* The lines the claim calls valid, '= <float>', with the float each one
\* carries as <<digits, decimals>>: '= 12.34' is 12.34 and '=5' is 5.
ValidLines == {ValidLine, BareValidLine}

WeightOf(line) == IF line = ValidLine THEN <<1234, 2>> ELSE <<5, 0>>

\* A load-cell read on an open port has returned.
Hx711Returned ==
    /\ bench.driver = "hx711_load_cell" /\ bench.configured /\ bench.opens
    /\ Returned

\* C14: the line-based parser skips every malformed line of the wait window
\* (text not starting with '=', '=' followed by a non-number, a line that is
\* not decodable text), so it returns the float of the first valid line that
\* arrives in the window, and empty only if no valid line arrives.
C14_FirstValidLine ==
    Hx711Returned =>
        LET V == {i \in 1 .. Len(bench.input) : bench.input[i] \in ValidLines}
        IN  IF V = {} THEN readout = ReadNone
            ELSE readout = ReadValue(WeightOf(bench.input[Earliest(V)]))

(* ------------------------------------------------------------------ C20 *)
\* The read amounts to device-not-found, malformed response or timeout: the
\* configuration names no device, the port does not open, no valid frame or
\* line arrived, the weather answer is anything but a 2xx/3xx response of the
\* expected shape, the I2C address is malformed or the transaction fails.
NothingToRead ==
    \/ ~bench.configured
    \/ ~bench.opens
    \/ bench.driver = "dfrobot_ult" /\ FramePositions(bench.input) = {}
    \/ /\ bench.driver = "hx711_load_cell"
       /\ \A i \in 1 .. Len(bench.input) : bench.input[i] \notin ValidLines
    \/ /\ bench.driver = "openweather"
       /\ \/ bench.input[1].err
          \/ bench.input[1].status >= 400
          \/ bench.input[1].shape # "weather"
    \/ /\ bench.driver = "sht3x"
       /\ \/ bench.input[1].address # "hex"
          \/ bench.input[1].device # "measured"

\* C20: no driver's read raises, and a read that amounts to device-not-found,
\* malformed response or timeout returns an empty result; in particular the
\* weather driver returns empty for every body without the expected shape.
C20_EmptyNeverRaises ==
    Returned =>
        /\ readout.kind # "raise"
        /\ NothingToRead => readout = ReadNone

(* ------------------------------------------------------------------ C21 *)
\* The upload of a report's capture failed: a transport error or a non-2xx
\* answer.
UploadFailed(t) ==
    t.capture = "captured" /\ (t.upload.err \/ ~Is2xx(t.upload.status))

\* The image was captured and the upload acknowledged.
UploadAcknowledged(t) ==
    t.capture = "captured" /\ ~t.upload.err /\ Is2xx(t.upload.status)

\* C21: a CAPTURE_IMAGE command whose photo upload failed (transport error or
\* non-2xx answer) is reported 'failed', and it is reported 'completed' only
\* when the image was captured and the upload was acknowledged.
C21_FailedUploadReportedFailed ==
    \A i \in DOMAIN reports :
        LET t == reports[i][5]
        IN  t.capture # "n/a" =>
                /\ UploadFailed(t) => reports[i][2] = "failed"
                /\ reports[i][2] = "completed" => UploadAcknowledged(t)
====
